---- MODULE Spec2Model ----
(***************************************************************************)
(* Model of the interactive SuiteQL session of suiteql.py: the prompt      *)
(* loop of interactive_repl, its meta-command dispatch chain, the nested   *)
(* execute_query / display_result helpers and the request parameters built *)
(* by run_suiteql_query.                                                   *)
(*                                                                         *)
(* Text is modelled as a sequence of one-character strings so that         *)
(* str.strip, str.startswith, str.split(None, 1) and int() are computed    *)
(* the way Python computes them.  A Python optional value is modelled as   *)
(* the empty tuple (None) or a one-element tuple <<v>>.                    *)
(***************************************************************************)
EXTENDS Integers, Sequences, FiniteSets, TLC

\* ------------------------------------------------------------------ bounds
\* Integer arguments typed after \l and \o, and given as --limit/--offset,
\* range over -MaxArg..MaxArg.
MaxArg == 1

\* Paging is explored while |default_offset| stays within MaxOffset.
MaxOffset == 11

\* ------------------------------------------------------- Python primitives
None == <<>>

Some(v) == <<v>>

\* Truth value of an optional integer: None and 0 are falsy.
TruthyInt(o) == o # None /\ o[1] # 0

\* Truth value of an optional string: None and "" are falsy.
TruthyStr(o) == o # None /\ o[1] # <<>>

\* `a or b` on an optional integer a and an integer b.
OrInt(o, d) == IF TruthyInt(o) THEN o[1] ELSE d

Max(a, b) == IF a >= b THEN a ELSE b

BS == "\\"

Whitespace == {" ", "\n", "\t"}

Digits == <<"0", "1", "2", "3", "4", "5", "6", "7", "8", "9">>

IsDigit(c) == \E i \in 1..10 : Digits[i] = c

DigitVal(c) == (CHOOSE i \in 1..10 : Digits[i] = c) - 1

RECURSIVE LStrip(_)
LStrip(s) ==
    IF s # <<>> /\ Head(s) \in Whitespace THEN LStrip(Tail(s)) ELSE s

RECURSIVE RStrip(_)
RStrip(s) ==
    IF s # <<>> /\ s[Len(s)] \in Whitespace
    THEN RStrip(SubSeq(s, 1, Len(s) - 1))
    ELSE s

\* A strip that removes leading whitespace only.
StripLeftOnly(s) == LStrip(s)

\* str.strip()
Strip(s) == RStrip(LStrip(s))

\* str.startswith(p)
StartsWith(s, p) == Len(s) >= Len(p) /\ SubSeq(s, 1, Len(p)) = p

\* Length of the leading run of non-whitespace characters of s.
RECURSIVE WordLen(_)
WordLen(s) ==
    IF s = <<>> \/ Head(s) \in Whitespace THEN 0 ELSE 1 + WordLen(Tail(s))

\* str.split(None, 1): the first whitespace-delimited word, then the rest
\* with its leading whitespace removed; the rest is dropped when empty.
Split1(s) ==
    LET t == LStrip(s)
        n == WordLen(t)
        rest == LStrip(SubSeq(t, n + 1, Len(t)))
    IN  IF t = <<>> THEN <<>>
        ELSE IF rest = <<>> THEN <<SubSeq(t, 1, n)>>
        ELSE <<SubSeq(t, 1, n), rest>>

RECURSIVE DigitsValue(_)
DigitsValue(s) ==
    IF s = <<>> THEN 0
    ELSE 10 * DigitsValue(SubSeq(s, 1, Len(s) - 1)) + DigitVal(s[Len(s)])

AllDigits(s) == s # <<>> /\ \A i \in 1..Len(s) : IsDigit(s[i])

\* An int() that drops the sign.
ParseIntUnsigned(s) ==
    LET t == Strip(s)
        signed == t # <<>> /\ Head(t) \in {"+", "-"}
        body == IF signed THEN Tail(t) ELSE t
    IN  IF ~AllDigits(body) THEN None ELSE Some(DigitsValue(body))

\* int(s): surrounding whitespace is ignored, one optional sign, then
\* decimal digits.  The result is Some(n), or None for ValueError.
ParseInt(s) ==
    LET t == Strip(s)
        signed == t # <<>> /\ Head(t) \in {"+", "-"}
        body == IF signed THEN Tail(t) ELSE t
    IN  IF ~AllDigits(body) THEN None
        ELSE IF signed /\ Head(t) = "-" THEN Some(0 - DigitsValue(body))
        ELSE Some(DigitsValue(body))

\* ------------------------------------------------------------ environment
\* Decimal text of an integer, as typed by the user after \l or \o.
RECURSIVE NatText(_)
NatText(n) ==
    IF n < 10 THEN <<Digits[n + 1]>>
    ELSE NatText(n \div 10) \o <<Digits[(n % 10) + 1]>>

IntText(n) == IF n < 0 THEN <<"-">> \o NatText(0 - n) ELSE NatText(n)

Args == (0 - MaxArg)..MaxArg

\* Query texts; the remote service treats them as opaque.
Q1 == <<"s", "1">>

Q2 == <<"s", "2">>

\* The file system seen by Path(filepath).read_text(): "a" holds Q1 and a
\* newline, "b" holds the text `\f b`, "e" holds only whitespace, "d" is a
\* directory, "m" is absent.
Paths == {"a", "b", "e", "d", "m"}

ReadText(path) ==
    CASE path = <<"a">> -> [status |-> "ok", data |-> Q1 \o <<"\n">>]
      [] path = <<"b">> -> [status |-> "ok", data |-> <<BS, "f", " ", "b">>]
      [] path = <<"e">> -> [status |-> "ok", data |-> <<" ", "\n">>]
      [] path = <<"d">> -> [status |-> "IsADirectoryError", data |-> <<>>]
      [] OTHER -> [status |-> "FileNotFoundError", data |-> <<>>]

\* Lines the prompt can return, before .strip().
FixedLines ==
    { <<" ">>,
      <<BS, "q">>, <<BS, "h">>, <<BS, "j">>, <<BS, "x">>,
      <<BS, "f">>, <<BS, "f", "m", "t">>, <<BS, "f", "m", "t", " ", "a">>,
      <<BS, "l">>, <<BS, "l", "x">>, <<BS, "l", " ", "x">>,
      <<BS, "o">>, <<BS, "o", " ", "x">>,
      <<BS, "n">>, <<BS, "p">>,
      Q1, <<" ">> \o Q2 \o <<" ", "\n">> }

FileLines == { <<BS, "f", " ", p>> : p \in Paths }

\* "\l n" and "\o n", and the longer tokens "\lx n" and "\ox n".
ArgLines ==
    { <<BS, c, " ">> \o IntText(n) : c \in {"l", "o"}, n \in Args }
    \cup { <<BS, c, "x", " ">> \o IntText(MaxArg) : c \in {"l", "o"} }

Lines == FixedLines \cup FileLines \cup ArgLines

\* Results the remote service can return (PagedResult): the number of
\* items, and the totalResults / offset / hasMore / count fields.
Results ==
    { [items |-> 0, totalResults |-> 0, offset |-> 0, hasMore |-> FALSE, count |-> 0],
      [items |-> 1, totalResults |-> 1, offset |-> 0, hasMore |-> FALSE, count |-> 1],
      [items |-> 1, totalResults |-> 2, offset |-> 1, hasMore |-> TRUE, count |-> 1] }

\* Exceptions of run_suiteql_query that derive from Exception, other than
\* requests.exceptions.HTTPError: network failure (requests.post) and an
\* undecodable body (response.json).
OtherErrors == {"ConnectionError", "JSONDecodeError"}

\* ------------------------------------------------------------------ state
VARIABLES
    output_json,     \* interactive_repl.output_json
    default_limit,   \* interactive_repl.default_limit (optional int)
    default_offset,  \* interactive_repl.default_offset (optional int)
    last_query,      \* interactive_repl.last_query (optional text)
    loop,            \* "NotStarted" (interactive_repl not entered),
                     \* "Running" (at the prompt), "InFlight" (inside
                     \* run_suiteql_query), "Terminated" (loop left by
                     \* break), "Aborted" (left by an uncaught exception)
    text,            \* the stripped line of the current iteration
    out,             \* what console.print showed in this iteration
    call,            \* the run_suiteql_query call of this iteration
    fmt,             \* the sqlparse.format calls of this iteration
    executed,        \* execute_query has been entered since start-up
    outcome,         \* how the remote call of this iteration ended
    returned,        \* what the remote call of this iteration returned
    pre,             \* the session variables when the line was read
    args,            \* the parsed command line (get_args)
    isatty,          \* sys.stdin.isatty()
    mode,            \* "start", then the branch __main__ takes: "file",
                     \* "interactive" or "stdin"
    exit_code        \* exit status of a non-interactive run, once it ended

vars == <<output_json, default_limit, default_offset, last_query, loop,
          text, out, call, fmt, executed, outcome, returned,
          pre, args, isatty, mode, exit_code>>

\* The variables of __main__ outside interactive_repl.
mainVars == <<args, isatty, mode, exit_code>>

Session ==
    [output_json |-> output_json, default_limit |-> default_limit,
     default_offset |-> default_offset, last_query |-> last_query]

Msg(k) == [kind |-> k, detail |-> <<>>]

\* argparse: --limit and --offset are type=int, default None.
StartArgs == {None} \cup { Some(n) : n \in Args }

\* interactive_repl entered from a terminal with no arguments; a start with
\* --limit / --offset is StartInteractive of MainSpec, and \l / \o reach the
\* same session states.
Init ==
    /\ args = [file |-> None, limit |-> None, offset |-> None,
               json_output |-> FALSE, interactive |-> FALSE]
    /\ isatty = TRUE
    /\ mode = "interactive"
    /\ exit_code = None
    /\ output_json = FALSE
    /\ default_limit = args.limit
    /\ default_offset = args.offset
    /\ last_query = None
    /\ loop = "Running"
    /\ text = <<>>
    /\ out = <<>>
    /\ call = None
    /\ fmt = <<>>
    /\ executed = FALSE
    /\ outcome = "none"
    /\ returned = None
    /\ pre = [output_json |-> FALSE, default_limit |-> default_limit,
              default_offset |-> default_offset, last_query |-> None]

\* ------------------------------------------------------- run_suiteql_query
\* The request parameters: a key is present only for an argument that is
\* not None.
Params(limit, offset) ==
    LET keys == (IF limit # None THEN {"limit"} ELSE {})
                \cup (IF offset # None THEN {"offset"} ELSE {})
    IN  [k \in keys |-> IF k = "limit" THEN limit[1] ELSE offset[1]]

\* ---------------------------------------------------------- display_result
Summary(result) ==
    [kind |-> "summary",
     detail |-> <<"rows">>
                \o (IF result.offset # 0 THEN <<"offset">> ELSE <<>>)
                \o (IF result.totalResults # 0 THEN <<"total">> ELSE <<>>)
                \o (IF result.hasMore THEN <<"more">> ELSE <<>>)]

DisplayResult(result, json) ==
    IF json THEN <<Msg("JSON"), Summary(result)>>
    ELSE IF result.items = 0 THEN <<Msg("No results.")>>
    ELSE <<Msg("table"), Summary(result)>>

\* ----------------------------------------------------------- execute_query
\* execute_query without `nonlocal last_query`: the assignment binds a local
\* name and the session's last_query keeps its value.
ExecuteQueryLocal(query, limit, offset) ==
    LET lim == IF limit # None THEN limit ELSE default_limit'
        off == IF offset # None THEN offset ELSE default_offset'
    IN  /\ UNCHANGED last_query
        /\ call' = Some([q |-> query, params |-> Params(lim, off)])
        /\ executed' = TRUE
        /\ loop' = "InFlight"

\* The part of execute_query up to the remote call: last_query is assigned
\* the value passed as query, the effective limit and offset are taken from
\* the explicit arguments or else from the session defaults as they are
\* now, and the call is issued.
ExecuteQuery(query, limit, offset) ==
    LET lim == IF limit # None THEN limit ELSE default_limit'
        off == IF offset # None THEN offset ELSE default_offset'
    IN  /\ last_query' = query
        /\ call' = Some([q |-> query, params |-> Params(lim, off)])
        /\ executed' = TRUE
        /\ loop' = "InFlight"

\* The remote call returns a result, which is displayed.
ExecutorReturns ==
    /\ UNCHANGED mainVars
    /\ loop = "InFlight"
    /\ \E r \in Results :
         /\ returned' = Some(r)
         /\ out' = out \o DisplayResult(r, output_json)
    /\ outcome' = "ok"
    /\ loop' = "Running"
    /\ UNCHANGED <<output_json, default_limit, default_offset, last_query,
                   text, call, fmt, executed, pre>>

\* except requests.exceptions.HTTPError: the error, then the body if any.
ExecutorHttpError ==
    /\ UNCHANGED mainVars
    /\ loop = "InFlight"
    /\ \E body \in BOOLEAN :
         out' = out \o <<Msg("HTTP error")>>
                    \o (IF body THEN <<Msg("body")>> ELSE <<>>)
    /\ outcome' = "HTTPError"
    /\ loop' = "Running"
    /\ UNCHANGED <<output_json, default_limit, default_offset, last_query,
                   text, call, fmt, executed, pre, returned>>

\* An error path that puts default_offset back to what it was when the line
\* was read.
ExecutorOtherErrorRollback ==
    /\ UNCHANGED mainVars
    /\ loop = "InFlight"
    /\ \E e \in OtherErrors : outcome' = e
    /\ out' = out \o <<Msg("Error")>>
    /\ loop' = "Running"
    /\ default_offset' = pre.default_offset
    /\ UNCHANGED <<output_json, default_limit, last_query,
                   text, call, fmt, executed, pre, returned>>

\* except Exception.
ExecutorOtherError ==
    /\ UNCHANGED mainVars
    /\ loop = "InFlight"
    /\ \E e \in OtherErrors : outcome' = e
    /\ out' = out \o <<Msg("Error")>>
    /\ loop' = "Running"
    /\ UNCHANGED <<output_json, default_limit, default_offset, last_query,
                   text, call, fmt, executed, pre, returned>>

\* KeyboardInterrupt during the remote call is not an Exception: no except
\* clause of execute_query or of the loop body catches it.
ExecutorInterrupted ==
    /\ UNCHANGED mainVars
    /\ loop = "InFlight"
    /\ outcome' = "KeyboardInterrupt"
    /\ loop' = "Aborted"
    /\ UNCHANGED <<output_json, default_limit, default_offset, last_query,
                   text, out, call, fmt, executed, pre, returned>>

\* --------------------------------------------------------- the dispatch chain
\* The chain without its `elif text.startswith("\\")` arm: a line that no
\* other arm takes is executed as a query.
BranchNoUnknown(t) ==
    IF t = <<BS, "q">> THEN "quit"
    ELSE IF t = <<BS, "h">> THEN "help"
    ELSE IF t = <<BS, "j">> THEN "toggle"
    ELSE IF StartsWith(t, <<BS, "f">>) THEN "load"
    ELSE IF t = <<BS, "f", "m", "t">> THEN "fmt"
    ELSE IF StartsWith(t, <<BS, "l">>) THEN "limit"
    ELSE IF StartsWith(t, <<BS, "o">>) THEN "offset"
    ELSE IF t = <<BS, "n">> THEN "next"
    ELSE IF t = <<BS, "p">> THEN "prev"
    ELSE "query"

\* The if/elif chain of the loop body, in source order: the branch taken
\* for a stripped, non-empty line.
Branch(t) ==
    IF t = <<BS, "q">> THEN "quit"
    ELSE IF t = <<BS, "h">> THEN "help"
    ELSE IF t = <<BS, "j">> THEN "toggle"
    ELSE IF StartsWith(t, <<BS, "f">>) THEN "load"
    ELSE IF t = <<BS, "f", "m", "t">> THEN "fmt"
    ELSE IF StartsWith(t, <<BS, "l">>) THEN "limit"
    ELSE IF StartsWith(t, <<BS, "o">>) THEN "offset"
    ELSE IF t = <<BS, "n">> THEN "next"
    ELSE IF t = <<BS, "p">> THEN "prev"
    ELSE IF StartsWith(t, <<BS>>) THEN "unknown"
    ELSE "query"

\* What session.prompt(...).strip() can yield.
Stripped == { Strip(line) : line \in Lines }

Branches ==
    {"quit", "help", "toggle", "load", "fmt", "limit", "offset", "next",
     "prev", "unknown", "query"}

\* The non-empty stripped lines that take each branch of the chain.
TextsOf == [b \in Branches |-> { t \in Stripped : t # <<>> /\ Branch(t) = b }]

\* session.prompt returned a line whose stripped text is t; the loop body
\* runs on t.
Reads(t) ==
    /\ loop = "Running"
    /\ text' = t
    /\ outcome' = "none"
    /\ returned' = None
    /\ pre' = Session

\* A branch that neither calls execute_query nor leaves the loop.
Stays == loop' = "Running" /\ call' = None /\ UNCHANGED executed

\* session.prompt raised EOFError or KeyboardInterrupt: no line is read in
\* this iteration.
EndOfInput ==
    /\ UNCHANGED mainVars
    /\ loop = "Running"
    /\ out' = <<Msg("Bye!")>>
    /\ loop' = "Terminated"
    /\ text' = <<>>
    /\ outcome' = "none"
    /\ returned' = None
    /\ pre' = Session
    /\ call' = None
    /\ fmt' = <<>>
    /\ UNCHANGED <<output_json, default_limit, default_offset, last_query,
                   executed>>

\* if not text: continue
EmptyLine ==
    /\ UNCHANGED mainVars
    /\ loop = "Running"
    /\ <<>> \in Stripped
    /\ text' = <<>>
    /\ outcome' = "none"
    /\ returned' = None
    /\ pre' = Session
    /\ out' = <<>>
    /\ fmt' = <<>>
    /\ Stays
    /\ UNCHANGED <<output_json, default_limit, default_offset, last_query>>

Quit ==
    /\ UNCHANGED mainVars
    /\ \E t \in TextsOf["quit"] : Reads(t)
    /\ out' = <<Msg("Bye!")>>
    /\ loop' = "Terminated"
    /\ call' = None
    /\ fmt' = <<>>
    /\ UNCHANGED <<output_json, default_limit, default_offset, last_query,
                   executed>>

\* The two branches that only display: \h (show_help) and \fmt.  The \fmt
\* branch formats last_query with sqlparse when it is truthy; whether a line
\* gets to it is decided by Branch.
HelpOrFormat ==
    /\ UNCHANGED mainVars
    /\ \E t \in TextsOf["help"] \cup TextsOf["fmt"] : Reads(t)
    /\ IF Branch(text') = "help"
       THEN out' = <<Msg("help")>> /\ fmt' = <<>>
       ELSE IF ~TruthyStr(last_query)
       THEN out' = <<Msg("No previous query to format.")>> /\ fmt' = <<>>
       ELSE out' = <<Msg("formatted")>> /\ fmt' = <<last_query[1]>>
    /\ Stays
    /\ UNCHANGED <<output_json, default_limit, default_offset, last_query>>

\* A \j that switches JSON output on instead of flipping it.
ToggleOutputOn ==
    /\ UNCHANGED mainVars
    /\ \E t \in TextsOf["toggle"] : Reads(t)
    /\ output_json' = TRUE
    /\ out' = <<Msg("Output mode")>>
    /\ fmt' = <<>>
    /\ Stays
    /\ UNCHANGED <<default_limit, default_offset, last_query>>

ToggleOutput ==
    /\ UNCHANGED mainVars
    /\ \E t \in TextsOf["toggle"] : Reads(t)
    /\ output_json' = ~output_json
    /\ out' = <<Msg("Output mode")>>
    /\ fmt' = <<>>
    /\ Stays
    /\ UNCHANGED <<default_limit, default_offset, last_query>>

\* \f: load a file and execute its stripped content.  Only
\* FileNotFoundError is caught around read_text.
LoadFile ==
    /\ UNCHANGED mainVars
    /\ \E t \in TextsOf["load"] : Reads(t)
    /\ fmt' = <<>>
    /\ UNCHANGED <<output_json, default_limit, default_offset>>
    /\ LET parts == Split1(text')
           file == ReadText(parts[2])
       IN  IF Len(parts) < 2
           THEN /\ out' = <<Msg("Usage: \\f <file>")>>
                /\ Stays
                /\ UNCHANGED last_query
           ELSE IF file.status = "FileNotFoundError"
           THEN /\ out' = <<Msg("File not found")>>
                /\ Stays
                /\ UNCHANGED last_query
           ELSE IF file.status # "ok"
           THEN /\ out' = <<>>
                /\ loop' = "Aborted"
                /\ call' = None
                /\ UNCHANGED <<last_query, executed>>
           ELSE /\ out' = <<Msg("Loaded")>>
                /\ ExecuteQuery(Some(Strip(file.data)), None, None)

\* \l: clear, set, or report a usage error when int() raises ValueError.
SetLimit ==
    /\ UNCHANGED mainVars
    /\ \E t \in TextsOf["limit"] : Reads(t)
    /\ fmt' = <<>>
    /\ Stays
    /\ UNCHANGED <<output_json, default_offset, last_query>>
    /\ LET parts == Split1(text')
       IN  IF Len(parts) < 2
           THEN default_limit' = None /\ out' = <<Msg("Default LIMIT cleared.")>>
           ELSE IF ParseInt(parts[2]) = None
           THEN UNCHANGED default_limit /\ out' = <<Msg("Usage: \\l <number>")>>
           ELSE /\ default_limit' = ParseInt(parts[2])
                /\ out' = <<Msg("Default LIMIT")>>

\* \o: the same shape, on default_offset.
SetOffset ==
    /\ UNCHANGED mainVars
    /\ \E t \in TextsOf["offset"] : Reads(t)
    /\ fmt' = <<>>
    /\ Stays
    /\ UNCHANGED <<output_json, default_limit, last_query>>
    /\ LET parts == Split1(text')
       IN  IF Len(parts) < 2
           THEN default_offset' = None /\ out' = <<Msg("Default OFFSET cleared.")>>
           ELSE IF ParseInt(parts[2]) = None
           THEN UNCHANGED default_offset /\ out' = <<Msg("Usage: \\o <number>")>>
           ELSE /\ default_offset' = ParseInt(parts[2])
                /\ out' = <<Msg("Default OFFSET")>>

\* A step that has no default when the limit is unset.
PageStepNoDefault(limit) == OrInt(limit, 0)

\* step = default_limit or 10
PageStep(limit) == OrInt(limit, 10)

\* default_offset = (default_offset or 0) + step
NextOffset(offset, limit) == OrInt(offset, 0) + PageStep(limit)

\* The backward step without the clamp at zero.
PrevOffsetNoClamp(offset, limit) == OrInt(offset, 0) - PageStep(limit)

\* default_offset = max((default_offset or 0) - step, 0)
PrevOffset(offset, limit) == Max(OrInt(offset, 0) - PageStep(limit), 0)

\* A guard that lets \n and \p through whatever last_query holds.
CanPaginateAlways(query) == TRUE

\* The guard of \n and \p: `if not last_query` reports, else the page moves.
CanPaginate(query) == TruthyStr(query)

InRange(n) == 0 - MaxOffset <= n /\ n <= MaxOffset

\* \n
NextPage ==
    /\ UNCHANGED mainVars
    /\ \E t \in TextsOf["next"] : Reads(t)
    /\ fmt' = <<>>
    /\ UNCHANGED <<output_json, default_limit>>
    /\ IF ~CanPaginate(last_query)
       THEN /\ out' = <<Msg("No previous query to paginate.")>>
            /\ Stays
            /\ UNCHANGED <<default_offset, last_query>>
       ELSE /\ InRange(NextOffset(default_offset, default_limit))
            /\ default_offset' = Some(NextOffset(default_offset, default_limit))
            /\ out' = <<Msg("offset")>>
            /\ ExecuteQuery(last_query, None, None)

\* \p
PrevPage ==
    /\ UNCHANGED mainVars
    /\ \E t \in TextsOf["prev"] : Reads(t)
    /\ fmt' = <<>>
    /\ UNCHANGED <<output_json, default_limit>>
    /\ IF ~CanPaginate(last_query)
       THEN /\ out' = <<Msg("No previous query to paginate.")>>
            /\ Stays
            /\ UNCHANGED <<default_offset, last_query>>
       ELSE /\ InRange(PrevOffset(default_offset, default_limit))
            /\ default_offset' = Some(PrevOffset(default_offset, default_limit))
            /\ out' = <<Msg("offset")>>
            /\ ExecuteQuery(last_query, None, None)

\* Any other line that starts with the backslash.
UnknownCommand ==
    /\ UNCHANGED mainVars
    /\ \E t \in TextsOf["unknown"] : Reads(t)
    /\ out' = <<Msg("Unknown command")>>
    /\ fmt' = <<>>
    /\ Stays
    /\ UNCHANGED <<output_json, default_limit, default_offset, last_query>>

\* Anything else is executed as a query.
RawQuery ==
    /\ UNCHANGED mainVars
    /\ \E t \in TextsOf["query"] : Reads(t)
    /\ out' = <<>>
    /\ fmt' = <<>>
    /\ UNCHANGED <<output_json, default_limit, default_offset>>
    /\ ExecuteQuery(Some(text'), None, None)

Next ==
    \/ EndOfInput
    \/ EmptyLine
    \/ Quit
    \/ HelpOrFormat
    \/ ToggleOutput
    \/ LoadFile
    \/ SetLimit
    \/ SetOffset
    \/ NextPage
    \/ PrevPage
    \/ UnknownCommand
    \/ RawQuery
    \/ ExecutorReturns
    \/ ExecutorHttpError
    \/ ExecutorOtherError
    \/ ExecutorInterrupted

Spec == Init /\ [][Next]_vars

\* ---------------------------------------------------------------- __main__
\* A positional file argument: absent, the empty string, a readable file,
\* a missing file.
FileArgs == {None, Some(<<>>), Some(<<"a">>), Some(<<"m">>)}

\* What sys.stdin.read() yields when a query is piped in.
StdinText == <<" ">> \o Q2 \o <<"\n">>

\* The start of the process: any command line, stdin a terminal or not.
MainInit ==
    /\ args \in [file : FileArgs, limit : StartArgs, offset : StartArgs,
                  json_output : BOOLEAN, interactive : BOOLEAN]
    /\ isatty \in BOOLEAN
    /\ mode = "start"
    /\ exit_code = None
    /\ output_json = FALSE
    /\ default_limit = None
    /\ default_offset = None
    /\ last_query = None
    /\ loop = "NotStarted"
    /\ text = <<>>
    /\ out = <<>>
    /\ call = None
    /\ fmt = <<>>
    /\ executed = FALSE
    /\ outcome = "none"
    /\ returned = None
    /\ pre = [output_json |-> FALSE, default_limit |-> None,
              default_offset |-> None, last_query |-> None]

\* A choice that ignores -i/--interactive.
ModeIgnoringFlag(a, tty) ==
    IF TruthyStr(a.file) THEN "file"
    ELSE IF tty THEN "interactive"
    ELSE "stdin"

\* if args.file: ... elif args.interactive or sys.stdin.isatty(): ... else:
Mode(a, tty) ==
    IF TruthyStr(a.file) THEN "file"
    ELSE IF a.interactive \/ tty THEN "interactive"
    ELSE "stdin"

\* The file branch: open(args.file).read().strip() is sent with the
\* --limit/--offset arguments; an exception of open() is not caught.
StartFile ==
    /\ mode = "start"
    /\ Mode(args, isatty) = "file"
    /\ mode' = "file"
    /\ LET file == ReadText(args.file[1])
       IN  IF file.status # "ok"
           THEN /\ out' = <<Msg("Traceback")>>
                /\ exit_code' = Some(1)
                /\ UNCHANGED call
           ELSE /\ out' = <<Msg("Running query...")>>
                /\ call' = Some([q |-> Some(Strip(file.data)),
                                 params |-> Params(args.limit, args.offset)])
                /\ UNCHANGED exit_code
    /\ UNCHANGED <<args, isatty, output_json, default_limit, default_offset,
                   last_query, loop, text, fmt, executed, outcome, returned,
                   pre>>

\* interactive_repl(args): the session starts from the command line's
\* limit and offset.
StartInteractive ==
    /\ mode = "start"
    /\ Mode(args, isatty) = "interactive"
    /\ mode' = "interactive"
    /\ default_limit' = args.limit
    /\ default_offset' = args.offset
    /\ loop' = "Running"
    /\ pre' = [output_json |-> FALSE, default_limit |-> args.limit,
               default_offset |-> args.offset, last_query |-> None]
    /\ UNCHANGED <<args, isatty, exit_code, output_json, last_query, text,
                   out, call, fmt, executed, outcome, returned>>

\* The stdin branch: sys.stdin.read().strip() is sent.
StartStdin ==
    /\ mode = "start"
    /\ Mode(args, isatty) = "stdin"
    /\ mode' = "stdin"
    /\ out' = <<Msg("Running query...")>>
    /\ call' = Some([q |-> Some(Strip(StdinText)),
                     params |-> Params(args.limit, args.offset)])
    /\ UNCHANGED <<args, isatty, exit_code, output_json, default_limit,
                   default_offset, last_query, loop, text, fmt, executed,
                   outcome, returned, pre>>

\* The remote call of a non-interactive run is outstanding.
BatchInFlight ==
    mode \in {"file", "stdin"} /\ call # None /\ exit_code = None

\* The result is printed as JSON and the script ends normally.
BatchReturns ==
    /\ BatchInFlight
    /\ \E r \in Results : returned' = Some(r)
    /\ outcome' = "ok"
    /\ out' = out \o <<Msg(IF mode = "stdin" /\ args.json_output
                            THEN "json" ELSE "json indent=2")>>
    /\ exit_code' = Some(0)
    /\ UNCHANGED <<args, isatty, mode, output_json, default_limit,
                   default_offset, last_query, loop, text, call, fmt,
                   executed, pre>>

\* except requests.exceptions.HTTPError: print the error, sys.exit(1).
BatchHttpError ==
    /\ BatchInFlight
    /\ outcome' = "HTTPError"
    /\ out' = out \o <<Msg("Error")>>
    /\ exit_code' = Some(1)
    /\ UNCHANGED <<args, isatty, mode, output_json, default_limit,
                   default_offset, last_query, loop, text, call, fmt,
                   executed, returned, pre>>

\* An error path that prints the failure and ends normally.
BatchOtherErrorSwallowed ==
    /\ BatchInFlight
    /\ \E e \in OtherErrors : outcome' = e
    /\ out' = out \o <<Msg("Error")>>
    /\ exit_code' = Some(0)
    /\ UNCHANGED <<args, isatty, mode, output_json, default_limit,
                   default_offset, last_query, loop, text, call, fmt,
                   executed, returned, pre>>

\* Any other exception of run_suiteql_query is not caught: the interpreter
\* prints the traceback and exits with status 1.
BatchOtherError ==
    /\ BatchInFlight
    /\ \E e \in OtherErrors : outcome' = e
    /\ out' = out \o <<Msg("Traceback")>>
    /\ exit_code' = Some(1)
    /\ UNCHANGED <<args, isatty, mode, output_json, default_limit,
                   default_offset, last_query, loop, text, call, fmt,
                   executed, returned, pre>>

MainNext ==
    \/ StartFile
    \/ StartInteractive
    \/ StartStdin
    \/ BatchReturns
    \/ BatchHttpError
    \/ BatchOtherError

MainSpec == MainInit /\ [][MainNext]_vars

\* ------------------------------------------------------------- type shape
OptInt(o) == o = None \/ (Len(o) = 1 /\ o[1] \in Int)

TypeOK ==
    /\ output_json \in BOOLEAN
    /\ OptInt(default_limit)
    /\ OptInt(default_offset)
    /\ loop \in {"NotStarted", "Running", "InFlight", "Terminated", "Aborted"}
    /\ executed \in BOOLEAN
    /\ Len(fmt) <= 1

\* ------------------------------------------------------------ properties
\* The meta-commands of the command table, by their token.
CmdQuit == <<BS, "q">>

CmdHelp == <<BS, "h">>

CmdToggle == <<BS, "j">>

CmdLoad == <<BS, "f">>

CmdFormat == <<BS, "f", "m", "t">>

CmdLimit == <<BS, "l">>

CmdOffset == <<BS, "o">>

CmdNext == <<BS, "n">>

CmdPrev == <<BS, "p">>

CommandTokens ==
    {CmdQuit, CmdHelp, CmdToggle, CmdLoad, CmdFormat, CmdLimit, CmdOffset,
     CmdNext, CmdPrev}

\* A line that starts with the escape marker and whose command token is
\* none of the meta-commands.
Unrecognized(t) ==
    /\ StartsWith(t, <<BS>>)
    /\ Split1(t)[1] \notin CommandTokens

Reported(k) == out = <<Msg(k)>>

\* The executor failed with an HTTP-status, network or decode error.
ExecutorFailed == outcome \in {"HTTPError"} \cup OtherErrors

\* last_query holds the text of a non-empty query.
LastQuerySet(session) == TruthyStr(session.last_query)

\* C1: a line that starts with the escape marker but is not one of the
\* recognized meta-commands is reported as an unknown command and leaves
\* output mode, default limit, default offset and last query unchanged.
C1_UnrecognizedIsInert ==
    Unrecognized(text) => Reported("Unknown command") /\ Session = pre

\* C2: with a last query set, format-last calls the formatter exactly once,
\* on the last query, shows the formatted text, issues no executor call and
\* leaves the session unchanged.
C2_FormatLastFormats ==
    (text = CmdFormat /\ LastQuerySet(pre))
        => /\ fmt = <<pre.last_query[1]>>
           /\ Reported("formatted")
           /\ call = None
           /\ Session = pre

\* C3: format-last before any query has been executed reports that there
\* is no previous query to format, calls neither the formatter nor the
\* executor, and the loop keeps running.
C3_FormatLastBeforeQuery ==
    (text = CmdFormat /\ ~executed)
        => /\ Reported("No previous query to format.")
           /\ fmt = <<>>
           /\ call = None
           /\ loop = "Running"

\* C4: the default offset is unset or not negative, in every state.
C4_OffsetNeverNegative ==
    default_offset = None \/ default_offset[1] >= 0

\* C5: with limit n and offset m set and a last query set, next-page
\* re-executes with offset m+n and leaves the default offset at m+n;
\* prev-page re-executes with offset max(m-n, 0).
C5_PageArithmetic ==
    (/\ text \in {CmdNext, CmdPrev}
     /\ pre.default_limit # None
     /\ pre.default_offset # None
     /\ LastQuerySet(pre))
        => LET n == pre.default_limit[1]
               m == pre.default_offset[1]
               target == IF text = CmdNext THEN m + n ELSE Max(m - n, 0)
           IN  /\ call # None
               /\ call[1].q = pre.last_query
               /\ "offset" \in DOMAIN call[1].params
               /\ call[1].params["offset"] = target
               /\ (text = CmdNext => default_offset = Some(target))

\* C6: with the default limit unset and a last query set, next-page moves
\* the default offset to (offset, or 0 if unset) + 10 and prev-page to
\* max((offset, or 0 if unset) - 10, 0); the re-execution sends no limit.
C6_DefaultStep ==
    (/\ text \in {CmdNext, CmdPrev}
     /\ pre.default_limit = None
     /\ LastQuerySet(pre))
        => LET old == IF pre.default_offset = None THEN 0
                      ELSE pre.default_offset[1]
               target == IF text = CmdNext THEN old + 10 ELSE Max(old - 10, 0)
           IN  /\ default_offset = Some(target)
               /\ call # None
               /\ call[1].q = pre.last_query
               /\ "limit" \notin DOMAIN call[1].params

C6_Witness ==
    /\ text = CmdNext
    /\ pre.default_limit = None
    /\ pre.default_offset = None
    /\ LastQuerySet(pre)
    /\ default_offset = Some(10)
    /\ call # None

\* C7: whatever the starting offset and the step, a prev-page that
\* re-executes leaves a default offset >= 0 and passes an offset >= 0.
C7_PrevPageNotNegative ==
    (text = CmdPrev /\ call # None)
        => /\ default_offset # None
           /\ default_offset[1] >= 0
           /\ "offset" \in DOMAIN call[1].params
           /\ call[1].params["offset"] >= 0

C7_Witness ==
    /\ text = CmdPrev
    /\ call # None
    /\ pre.default_offset # None
    /\ pre.default_offset[1] < 0
    /\ default_offset = Some(0)

\* C8: next-page, prev-page and format-last treat the last query as set
\* exactly when a query execution has been dispatched before; when none
\* has, they report and the loop keeps running.
Replays == call # None \/ fmt # <<>>

C8_ReplayIffExecuted ==
    [][(loop = "Running" /\ text' \in {CmdNext, CmdPrev, CmdFormat})
           => /\ Replays' <=> executed
              /\ ~executed => (loop' = "Running" /\ out' # <<>>)]_vars

\* C9: next-page or prev-page before any query has been executed reports,
\* issues no executor call and leaves the session unchanged.
C9_PageBeforeQuery ==
    [][(loop = "Running" /\ ~executed /\ text' \in {CmdNext, CmdPrev})
           => /\ out' = <<Msg("No previous query to paginate.")>>
              /\ call' = None
              /\ loop' = "Running"
              /\ Session' = Session]_vars

C9_Witness ==
    /\ text \in {CmdNext, CmdPrev}
    /\ ~executed
    /\ Reported("No previous query to paginate.")

\* C10: when the executor fails on a raw query q, the failure is reported,
\* the loop keeps running and last_query is q; a next-page right after
\* calls the executor with q.
FailedRawQuery == ExecutorFailed /\ Branch(text) = "query"

C10_FailedQueryReplayable ==
    [][/\ FailedRawQuery'
          => /\ loop' = "Running"
             /\ out'[1].kind \in {"HTTP error", "Error"}
             /\ last_query' = Some(text')
       /\ (FailedRawQuery /\ text' = CmdNext)
          => /\ loop' = "InFlight"
             /\ call' # None
             /\ call'[1].q = Some(text)]_vars

C10_Witness ==
    /\ FailedRawQuery
    /\ loop = "Running"
    /\ last_query = Some(text)
    /\ Len(out) >= 1

\* C11: the session ends only by the quit command or by end-of-input or
\* an interrupt at the prompt; no other line and no failure during
\* dispatch ends it.
C11_OnlyQuitOrEndOfInputEnds ==
    loop \in {"Terminated", "Aborted"}
        => /\ loop = "Terminated"
           /\ Reported("Bye!")
           /\ text \in {CmdQuit, <<>>}

\* C12: an interrupt during the remote call is reported like an executor
\* error and the loop keeps running.
C12_InterruptInFlightReported ==
    outcome = "KeyboardInterrupt"
        => /\ loop = "Running"
           /\ out # <<>>
           /\ out[Len(out)].kind \in {"Error", "HTTP error", "body"}

\* C13: set-limit / set-offset with an integer sets the field to it, with
\* no argument clears it, with a non-numeric argument reports a usage error
\* and changes nothing; the other fields stay and no executor call is made.
Without(session, c) ==
    IF c = "l" THEN [session EXCEPT !.default_limit = None]
    ELSE [session EXCEPT !.default_offset = None]

C13_SetOrClear ==
    \A c \in {"l", "o"} :
        LET field == IF c = "l" THEN default_limit ELSE default_offset
            others == Without(Session, c) = Without(pre, c)
        IN  /\ text = <<BS, c>>
               => field = None /\ others /\ call = None /\ loop = "Running"
            /\ \A n \in Args :
                 text = <<BS, c, " ">> \o IntText(n)
                   => /\ field = Some(n)
                      /\ others
                      /\ call = None
                      /\ loop = "Running"
            /\ text = <<BS, c, " ", "x">>
               => /\ Session = pre
                  /\ out # <<>>
                  /\ out[1].kind \in {"Usage: \\l <number>", "Usage: \\o <number>"}
                  /\ call = None
                  /\ loop = "Running"

C13_Witness ==
    /\ text = <<BS, "l", " ">> \o IntText(0 - MaxArg)
    /\ pre.default_limit = None
    /\ default_limit = Some(0 - MaxArg)

\* C14: two toggle-output commands in a row restore the output mode; each
\* toggle flips it, leaves limit, offset and last query alone and issues no
\* executor call.
C14_ToggleTwice ==
    [][/\ (loop = "Running" /\ text' = CmdToggle)
          => /\ output_json' = ~output_json
             /\ default_limit' = default_limit
             /\ default_offset' = default_offset
             /\ last_query' = last_query
             /\ call' = None
       /\ (loop = "Running" /\ text = CmdToggle /\ text' = CmdToggle)
          => output_json' = pre.output_json]_vars

C14_Witness ==
    /\ text = CmdToggle
    /\ pre.output_json
    /\ ~output_json

\* C15: a non-empty line that does not start with the escape marker issues
\* one executor call with the trimmed line as query and the session's
\* default limit and offset, and last_query is already that query when the
\* call is issued.
Trimmed(t) == t # <<>> /\ t[1] \notin Whitespace /\ t[Len(t)] \notin Whitespace

SentAs(params, key, value) ==
    IF value = None THEN key \notin DOMAIN params
    ELSE key \in DOMAIN params /\ params[key] = value[1]

C15_RawQueryCall ==
    [][(loop = "Running" /\ text' # <<>> /\ ~StartsWith(text', <<BS>>))
          => /\ Trimmed(text')
             /\ loop' = "InFlight"
             /\ call' # None
             /\ call'[1].q = Some(text')
             /\ DOMAIN call'[1].params \subseteq {"limit", "offset"}
             /\ SentAs(call'[1].params, "limit", default_limit)
             /\ SentAs(call'[1].params, "offset", default_offset)
             /\ last_query' = Some(text')]_vars

C15_Witness ==
    /\ text = Q2
    /\ loop = "InFlight"
    /\ call # None
    /\ call[1].q = Some(Q2)
    /\ "limit" \in DOMAIN call[1].params
    /\ "offset" \in DOMAIN call[1].params
    /\ last_query = Some(Q2)

\* C20: next-page and prev-page store the stepped offset when they issue
\* the call, and no outcome of the call changes it back; two next-page
\* commands in a row advance the offset by twice the step, whatever the
\* first call returned.
StepOf(limit) == IF limit # None /\ limit[1] # 0 THEN limit[1] ELSE 10

OffsetOrZero(offset) == IF offset = None THEN 0 ELSE offset[1]

C20_OffsetCommitted ==
    [][/\ (loop = "InFlight" /\ text \in {CmdNext, CmdPrev})
          => default_offset' = default_offset
       /\ (loop = "Running" /\ text' = CmdNext /\ call' # None)
          => /\ default_offset' =
                  Some(OffsetOrZero(default_offset) + StepOf(default_limit))
             /\ SentAs(call'[1].params, "offset", default_offset')
       /\ (loop = "Running" /\ text = CmdNext /\ call # None
             /\ text' = CmdNext)
          => default_offset' =
               Some(OffsetOrZero(pre.default_offset)
                      + 2 * StepOf(pre.default_limit))]_vars

C20_Witness ==
    /\ text = CmdNext
    /\ loop = "Running"
    /\ ExecutorFailed
    /\ pre.default_offset = Some(1)
    /\ pre.default_limit = None
    /\ default_offset = Some(11)

\* C16: in both output modes the display of a returned result ends with
\* the summary line: the row count, the offset when it is not zero, the
\* total when it is not zero, and the more-available hint exactly when
\* hasMore is true; also in table mode with no items.
C16_SummaryAlwaysLast ==
    (outcome = "ok" /\ returned # None)
        => LET r == returned[1]
               last == out[Len(out)]
           IN  /\ out # <<>>
               /\ last.kind = "summary"
               /\ last.detail =
                    <<"rows">>
                    \o (IF r.offset # 0 THEN <<"offset">> ELSE <<>>)
                    \o (IF r.totalResults # 0 THEN <<"total">> ELSE <<>>)
                    \o (IF r.hasMore THEN <<"more">> ELSE <<>>)

\* The stripped content of the file named on a line with two parts, when
\* it can be read.
LoadedBy(t) ==
    LET parts == Split1(t)
    IN  IF Len(parts) = 2 /\ ReadText(parts[2]).status = "ok"
        THEN Some(Strip(ReadText(parts[2]).data))
        ELSE None

\* A line that starts with the escape marker issues no executor call, or
\* one whose query is the content of the loaded file, or (next-page,
\* prev-page) the previous last query.
MarkerLineNotForwarded ==
    (StartsWith(text, <<BS>>) /\ call # None)
        => \/ (text \in {CmdNext, CmdPrev} /\ call[1].q = pre.last_query)
           \/ (StartsWith(text, CmdLoad) /\ LoadedBy(text) # None
                 /\ call[1].q = LoadedBy(text))

C17_ModeByFileOrTty ==
    mode # "start"
        => (mode \in {"file", "stdin"} <=> (args.file # None \/ ~isatty))

\* C17 as amended: a non-interactive mode is chosen when a non-empty file
\* argument is given, or when there is none, the interactive flag is off
\* and stdin is not a terminal; the interactive session otherwise.
C17_ModeByFileFlagTty ==
    mode # "start"
        => LET file == args.file # None /\ args.file[1] # <<>>
           IN  /\ mode = "file" <=> file
               /\ mode = "stdin" <=> (~file /\ ~args.interactive /\ ~isatty)
               /\ mode = "interactive" <=> (~file /\ (args.interactive \/ isatty))
               /\ mode = "interactive" <=> loop = "Running"

C17_Witness ==
    /\ mode = "interactive"
    /\ loop = "Running"
    /\ args.file = None
    /\ args.interactive
    /\ ~isatty

\* C18 as claimed: a non-interactive run exits with 1 when the executor
\* fails with an HTTP-status error and with 0 for every other outcome.
C18_ExitOneOnlyOnHttpError ==
    (mode \in {"file", "stdin"} /\ outcome # "none")
        => exit_code = (IF outcome = "HTTPError" THEN Some(1) ELSE Some(0))

\* C18 as amended: a non-interactive run exits with 0 when the executor
\* returns a result and with 1 when it fails, with an HTTP-status error or
\* with a network or decode error.
C18_ExitZeroOnlyOnResult ==
    (mode \in {"file", "stdin"} /\ outcome # "none")
        => exit_code = (IF outcome = "ok" THEN Some(0) ELSE Some(1))

C18_Witness ==
    /\ mode = "stdin"
    /\ outcome = "ConnectionError"
    /\ exit_code = Some(1)

====
